---- MODULE Spec2Model ----
(***************************************************************************)
(* A model of RenameShell (src/manga-rename-shell.py): the interactive     *)
(* command loop that plans renames of the entries of one directory and     *)
(* commits them to disk.  Strings are sequences of one-character strings,  *)
(* so that parsing, padding and formatting are computed, not assumed.      *)
(***************************************************************************)
EXTENDS Integers, Sequences, FiniteSets, TLC

\* ------------------------------------------------------------------ bounds

\* Commands dispatched by the command loop in one session.
MaxCmds == 4

\* The longest page number a file name starts with.
MaxDigits == 4

\* ----------------------------------------------------------- characters

\* Body applied to the value of x: the value is computed once, however often
\* Body uses it.
Let(x, Body(_)) == CHOOSE r \in {Body(v) : v \in {x}} : TRUE

DigitChars == <<"0", "1", "2", "3", "4", "5", "6", "7", "8", "9">>
Digits == {DigitChars[i] : i \in 1..10}
LowerChars == <<"a", "b", "c", "d", "e", "f", "g", "h", "i", "j", "k", "l", "m",
                "n", "o", "p", "q", "r", "s", "t", "u", "v", "w", "x", "y", "z">>
Lowers == {LowerChars[i] : i \in 1..26}
UpperChars == <<"A", "B", "C", "D", "E", "F", "G", "H", "I", "J", "K", "L", "M",
                "N", "O", "P", "Q", "R", "S", "T", "U", "V", "W", "X", "Y", "Z">>
Uppers == {UpperChars[i] : i \in 1..26}

\* The characters of the model in code point order: sorted() compares
\* strings code point by code point.
Alphabet == <<" ", "(", ")", "+", "-", ".", "/">> \o DigitChars \o UpperChars
            \o <<"[", "\\", "]">> \o LowerChars
Ord(c) == CHOOSE i \in 1..Len(Alphabet) : Alphabet[i] = c

IsDigit(s, i) == i >= 1 /\ i <= Len(s) /\ s[i] \in Digits
IsLower(s, i) == i >= 1 /\ i <= Len(s) /\ s[i] \in Lowers

DigitVal(c) == (CHOOSE i \in 1..10 : DigitChars[i] = c) - 1

Max(a, b) == IF a >= b THEN a ELSE b

\* int(s) for a string of decimal digits.
RECURSIVE IntUpTo(_, _)
IntUpTo(s, k) == IF k = 0 THEN 0 ELSE 10 * IntUpTo(s, k - 1) + DigitVal(s[k])
IntOf(s) == Let(s, LAMBDA v : IntUpTo(v, Len(v)))

\* str(n) for n >= 0.
RECURSIVE StrOfNat(_)
StrOfNat(n) == IF n < 10 THEN <<DigitChars[n + 1]>>
               ELSE StrOfNat(n \div 10) \o <<DigitChars[(n % 10) + 1]>>
StrOf(n) == Let(n, LAMBDA v : StrOfNat(v))

RECURSIVE Zeros(_)
Zeros(k) == IF k <= 0 THEN <<>> ELSE <<"0">> \o Zeros(k - 1)

\* str.strip(): leading and trailing blanks removed.
RECURSIVE FirstNonBlank(_, _)
FirstNonBlank(s, i) == IF i <= Len(s) /\ s[i] = " " THEN FirstNonBlank(s, i + 1) ELSE i
RECURSIVE LastNonBlank(_, _)
LastNonBlank(s, i) == IF i >= 1 /\ s[i] = " " THEN LastNonBlank(s, i - 1) ELSE i
Strip(s) == Let(s, LAMBDA v : SubSeq(v, FirstNonBlank(v, 1), LastNonBlank(v, Len(v))))

\* str.lower() on the model's alphabet.
LowerOf(c) == IF c \in Uppers THEN LowerChars[CHOOSE i \in 1..26 : UpperChars[i] = c] ELSE c
ToLower(s) == Let(s, LAMBDA v : [i \in 1..Len(v) |-> LowerOf(v[i])])

\* The index after the run of digits that starts at i (i itself when there is none).
RECURSIVE DigitsEnd(_, _)
DigitsEnd(s, i) == IF IsDigit(s, i) THEN DigitsEnd(s, i + 1) ELSE i
RECURSIVE LowersEnd(_, _)
LowersEnd(s, i) == IF IsLower(s, i) THEN LowersEnd(s, i + 1) ELSE i

\* Lexicographic order by code point: a < b, compared from position i on.
RECURSIVE StrLessAt(_, _, _)
StrLessAt(a, b, i) ==
    IF i > Len(b) THEN FALSE
    ELSE IF i > Len(a) THEN TRUE
    ELSE IF a[i] # b[i] THEN Ord(a[i]) < Ord(b[i])
    ELSE StrLessAt(a, b, i + 1)
StrLess(a, b) == StrLessAt(a, b, 1)

\* sorted(names): ascending, for a set of distinct strings.
MinName(S) == CHOOSE x \in S : \A y \in S \ {x} : StrLess(x, y)
RECURSIVE SortedNames(_)
SortedNames(S) ==
    Let(S, LAMBDA T :
        IF T = {} THEN <<>>
        ELSE Let(MinName(T), LAMBDA m : <<m>> \o SortedNames(T \ {m})))

\* An absent value (Python's None) and a present string.
Absent == [has |-> FALSE, s |-> <<>>]
Some(s) == [has |-> TRUE, s |-> s]

\* --------------------------------------------------------------- patterns

\* NUMBER_REGEX = ((\d+)(?:-(\d+))?([a-z])?), the default of _reload.
NUMBER_REGEX == <<"(", "(", "\\", "d", "+", ")", "(", "?", ":", "-", "(", "\\", "d", "+", ")",
                  ")", "?", "(", "[", "a", "-", "z", "]", ")", "?", ")">>
\* Operator patterns given to bulk: (\d+), (\d+)-(\d+), ([a-z]+), and "(",
\* which does not compile.
PatDigits == <<"(", "\\", "d", "+", ")">>
PatPair == <<"(", "\\", "d", "+", ")", "-", "(", "\\", "d", "+", ")">>
PatAlpha == <<"(", "[", "a", "-", "z", "]", "+", ")">>
PatBad == <<"(">>
BulkPatterns == {PatDigits, PatPair, PatAlpha, PatBad}

\* Whether re accepts the pattern (re.findall raises re.error otherwise).
Compiles(p) == p \in {NUMBER_REGEX, PatDigits, PatPair, PatAlpha}

\* The number of capture groups of a pattern that compiles.
GroupCount(p) == IF p = NUMBER_REGEX THEN 4
                 ELSE IF p = PatPair THEN 2
                 ELSE 1

NoMatch == [ok |-> FALSE, end |-> 0, groups |-> <<>>]

\* NUMBER_REGEX tried at position i: digits, then optionally "-" and digits,
\* then optionally one lowercase letter; every part is greedy.
MatchNumberAt(s, i) ==
    IF ~IsDigit(s, i) THEN NoMatch
    ELSE Let(DigitsEnd(s, i), LAMBDA e1 :
         LET hasRange == e1 <= Len(s) /\ s[e1] = "-" /\ IsDigit(s, e1 + 1)
         IN Let(IF hasRange THEN DigitsEnd(s, e1 + 1) ELSE e1, LAMBDA e2 :
            LET hasLetter == IsLower(s, e2)
                e3 == IF hasLetter THEN e2 + 1 ELSE e2
            IN [ok |-> TRUE, end |-> e3,
                groups |-> << Some(SubSeq(s, i, e3 - 1)),
                              Some(SubSeq(s, i, e1 - 1)),
                              IF hasRange THEN Some(SubSeq(s, e1 + 1, e2 - 1)) ELSE Absent,
                              IF hasLetter THEN Some(<<s[e2]>>) ELSE Absent >>]))

\* A compiled pattern tried at position i of s.
MatchAt(p, s, i) ==
    IF p = NUMBER_REGEX THEN MatchNumberAt(s, i)
    ELSE IF p = PatDigits THEN
        IF IsDigit(s, i)
        THEN [ok |-> TRUE, end |-> DigitsEnd(s, i),
              groups |-> <<Some(SubSeq(s, i, DigitsEnd(s, i) - 1))>>]
        ELSE NoMatch
    ELSE IF p = PatPair THEN
        LET e1 == DigitsEnd(s, i)
        IN IF IsDigit(s, i) /\ e1 <= Len(s) /\ s[e1] = "-" /\ IsDigit(s, e1 + 1)
           THEN [ok |-> TRUE, end |-> DigitsEnd(s, e1 + 1),
                 groups |-> << Some(SubSeq(s, i, e1 - 1)),
                               Some(SubSeq(s, e1 + 1, DigitsEnd(s, e1 + 1) - 1)) >>]
           ELSE NoMatch
    ELSE
        IF IsLower(s, i)
        THEN [ok |-> TRUE, end |-> LowersEnd(s, i),
              groups |-> <<Some(SubSeq(s, i, LowersEnd(s, i) - 1))>>]
        ELSE NoMatch

\* One item of re.findall's list: with one capture group the captured string
\* itself, with several a tuple of the groups (a group that took no part
\* gives '').
FindallItem(p, m) ==
    IF GroupCount(p) = 1
    THEN [tuple |-> FALSE, parts |-> <<m.groups[1].s>>]
    ELSE [tuple |-> TRUE, parts |-> [k \in 1..GroupCount(p) |-> m.groups[k].s]]

\* re.findall(p, s): the non-overlapping matches, scanning left to right
\* from position i.
RECURSIVE FindallFrom(_, _, _)
FindallFrom(p, s, i) ==
    IF i > Len(s) THEN <<>>
    ELSE Let(MatchAt(p, s, i), LAMBDA m :
            IF m.ok THEN <<FindallItem(p, m)>> \o FindallFrom(p, s, m.end)
            ELSE FindallFrom(p, s, i + 1))
Findall(p, s) == Let(s, LAMBDA v : FindallFrom(p, v, 1))

\* item[0]: the first group of a tuple, the first character of a string
\* (IndexError on the empty string).
ItemIndex0(item) ==
    IF item.tuple THEN [ok |-> TRUE, s |-> item.parts[1]]
    ELSE IF item.parts[1] = <<>> THEN [ok |-> FALSE, s |-> <<>>]
    ELSE [ok |-> TRUE, s |-> <<item.parts[1][1]>>]

\* ------------------------------------------------------- number tokens

\* A variant that keeps the last three digits only.
Pad3_LastThree(n) == Let(StrOf(n % 1000), LAMBDA d : Zeros(3 - Len(d)) \o d)

\* "%03d" % n
Pad3(n) == Let(StrOf(n), LAMBDA d : Zeros(3 - Len(d)) \o d)

\* _parseAndPad: the padded token and the highest number of text, or
\* (None, None) when text does not start with a number.
ParseAndPad(text) ==
    Let(Strip(text), LAMBDA stripped :
    Let(MatchNumberAt(stripped, 1), LAMBDA m :
        IF ~m.ok THEN [ok |-> FALSE, text |-> <<>>, highest |-> 0]
        ELSE Let(IntOf(m.groups[2].s), LAMBDA number :
             Let(IF m.groups[3].has THEN IntOf(m.groups[3].s) ELSE 0, LAMBDA second :
                [ok |-> TRUE,
                 text |-> Pad3(number)
                          \o (IF m.groups[3].has THEN <<"-">> \o Pad3(second) ELSE <<>>)
                          \o (IF m.groups[4].has THEN m.groups[4].s ELSE <<>>),
                 highest |-> IF m.groups[3].has /\ second > number THEN second ELSE number]))))

\* os.path.splitext(name)[-1] for a name without a separator: from the last
\* dot on, unless only dots come before it.
LastDot(s) == IF \E i \in 1..Len(s) : s[i] = "."
              THEN CHOOSE i \in 1..Len(s) : s[i] = "." /\ \A j \in (i + 1)..Len(s) : s[j] # "."
              ELSE 0
SplitextExt(s) ==
    Let(LastDot(s), LAMBDA dot :
        IF dot > 0 /\ \E k \in 1..(dot - 1) : s[k] # "."
        THEN SubSeq(s, dot, Len(s))
        ELSE <<>>)

\* ------------------------------------------------------- plan building

TYPE_NONE == "None"
TYPE_SERIES == "Series"
TYPE_CHAPTER == "Chapter"
DirTypes == {TYPE_NONE, TYPE_SERIES, TYPE_CHAPTER}

ACTION_RENAME == "R"
ACTION_IGNORE == "I"
ACTION_DELETE == "D"

\* A variant that gives the series letter to chapters and the page letter to series.
FormatRename_SwappedLetters(dType, bName, original, number, ext) ==
    IF dType = TYPE_NONE THEN original
    ELSE IF dType = TYPE_SERIES THEN bName \o <<" ", "p">> \o number \o ext
    ELSE bName \o <<" ", "c">> \o number \o ext

\* The name a classification gives to a token: "%s c%s%s" / "%s p%s%s".
FormatRename(dType, bName, original, number, ext) ==
    IF dType = TYPE_NONE THEN original
    ELSE IF dType = TYPE_SERIES THEN bName \o <<" ", "c">> \o number \o ext
    ELSE bName \o <<" ", "p">> \o number \o ext

\* _createRename(original, backupNumber, numberRegex) under dirType and
\* baseName: exc names the exception that leaves it, if any; hasHighest is
\* FALSE when it returns (original, None).  The number is the backup
\* number's unless re.findall finds a match, and then it is parsed from
\* matches[-1][0].
CreateRename(dType, bName, original, backupNumber, numberRegex) ==
    IF ~Compiles(numberRegex)
    THEN [exc |-> "re.error", rename |-> original, hasHighest |-> FALSE,
          highest |-> 0, number |-> <<>>, matched |-> FALSE]
    ELSE Let(Findall(numberRegex, original), LAMBDA matches :
         Let(IF Len(matches) > 0 THEN ItemIndex0(matches[Len(matches)])
             ELSE [ok |-> TRUE, s |-> StrOf(backupNumber)], LAMBDA picked :
            IF ~picked.ok
            THEN [exc |-> "IndexError", rename |-> original, hasHighest |-> FALSE,
                  highest |-> 0, number |-> <<>>, matched |-> TRUE]
            ELSE Let(ParseAndPad(picked.s), LAMBDA parsed :
                IF ~parsed.ok
                THEN [exc |-> "", rename |-> original, hasHighest |-> FALSE,
                      highest |-> 0, number |-> <<>>, matched |-> TRUE]
                ELSE [exc |-> "", hasHighest |-> TRUE, highest |-> parsed.highest,
                      rename |-> FormatRename(dType, bName, original, parsed.text,
                                              SplitextExt(original)),
                      number |-> parsed.text, matched |-> Len(matches) > 0])))

\* A variant that counts entries without looking at the numbers they consumed.
NextNumber_NoMax(nextNumber, highestNumber) == nextNumber + 1

\* nextNumber = max(nextNumber, highestNumber) + 1
NextNumber(nextNumber, highestNumber) == Max(nextNumber, highestNumber) + 1

\* The loop of _reload over the sorted listing from entry i on: st holds the
\* counter, the renames appended so far and what each entry was built from.
\* The loop is left by an exception of _createRename, or by the TypeError of
\* max(nextNumber, None).
RECURSIVE ReloadLoop(_, _, _, _, _, _)
ReloadLoop(dType, bName, dirents, numberRegex, i, st) ==
    IF i > Len(dirents)
    THEN [exc |-> "", renames |-> st.out, log |-> st.log]
    ELSE Let(CreateRename(dType, bName, dirents[i], st.nextNumber, numberRegex), LAMBDA r :
            IF r.exc # "" THEN [exc |-> r.exc, renames |-> st.out, log |-> st.log]
            ELSE IF ~r.hasHighest
            THEN [exc |-> "TypeError", renames |-> st.out, log |-> st.log]
            ELSE Let([nextNumber |-> NextNumber(st.nextNumber, r.highest),
                      out |-> Append(st.out, <<dirents[i], r.rename>>),
                      log |-> Append(st.log, [backup |-> st.nextNumber,
                                              highest |-> r.highest,
                                              number |-> r.number,
                                              matched |-> r.matched])],
                     LAMBDA st2 : ReloadLoop(dType, bName, dirents, numberRegex, i + 1, st2)))

\* ------------------------------------------------------------ file system

\* A path is a sequence of names; a file system maps each existing path to
\* its node, a directory or a file, with the path it had at the start as its
\* identity.  The root <<>> is always a directory.
IsPrefix(p, q) == Len(q) >= Len(p) /\ SubSeq(q, 1, Len(p)) = p
Under(f, p) == {q \in DOMAIN f : IsPrefix(p, q)}
PathExists(f, p) == p = <<>> \/ p \in DOMAIN f
PathIsDir(f, p) == p = <<>> \/ (p \in DOMAIN f /\ f[p].dir)
PathIsFile(f, p) == p \in DOMAIN f /\ ~f[p].dir

\* os.listdir(p)
ListDir(f, p) == {q[Len(q)] : q \in {r \in DOMAIN f : Len(r) = Len(p) + 1 /\ IsPrefix(p, r)}}

\* os.path.join(base, name) for a name without a separator; joining the empty
\* name gives the directory itself (base + "/").
JoinPath(base, name) == IF name = <<>> THEN base ELSE Append(base, name)

\* os.rename(src, dst) of an existing src: the subtree of src now lives at dst,
\* replacing what was there.
RenameTree(f, src, dst) ==
    LET moved == {dst \o SubSeq(q, Len(src) + 1, Len(q)) : q \in Under(f, src)}
        kept == (DOMAIN f \ Under(f, src)) \ Under(f, dst)
    IN [q \in kept \cup moved |->
            IF q \in moved THEN f[src \o SubSeq(q, Len(dst) + 1, Len(q))] ELSE f[q]]

\* shutil.move(src, dst): into dst when dst is a directory (an error when the
\* name is taken there), else a rename onto dst, which replaces an existing
\* file; a missing source, or a directory moved onto a file, is an error.
ShutilMove(f, src, dst) ==
    LET realDst == IF PathIsDir(f, dst) THEN Append(dst, src[Len(src)]) ELSE dst
    IN IF PathIsDir(f, dst) /\ PathExists(f, realDst)
       THEN [ok |-> FALSE, fs |-> f]
       ELSE IF ~PathExists(f, src) THEN [ok |-> FALSE, fs |-> f]
       ELSE IF PathIsDir(f, src) /\ PathIsFile(f, realDst) THEN [ok |-> FALSE, fs |-> f]
       ELSE [ok |-> TRUE, fs |-> RenameTree(f, src, realDst)]

\* _remove(path): os.remove of a file, shutil.rmtree of a directory, a
\* ValueError for anything else (the model has no symbolic links).
Remove(f, path) ==
    IF PathIsFile(f, path)
    THEN [ok |-> TRUE, fs |-> [q \in DOMAIN f \ {path} |-> f[q]]]
    ELSE IF PathIsDir(f, path)
    THEN [ok |-> TRUE, fs |-> [q \in DOMAIN f \ Under(f, path) |-> f[q]]]
    ELSE [ok |-> FALSE, fs |-> f]

\* ------------------------------------------------------------- committing

\* A variant that moves whatever has a new name, whatever its action.
CommitOp_AnyAction(action, original, newName) ==
    IF original # newName THEN "move"
    ELSE IF action = ACTION_DELETE THEN "remove"
    ELSE "none"

\* A variant that moves every entry marked Rename, renamed or not.
CommitOp_MoveAlways(action, original, newName) ==
    IF action = ACTION_RENAME THEN "move"
    ELSE IF action = ACTION_DELETE THEN "remove"
    ELSE "none"

\* The operation _commit issues for one entry: "move", "remove" or "none".
CommitOp(action, original, newName) ==
    IF action = ACTION_RENAME /\ original # newName THEN "move"
    ELSE IF action = ACTION_DELETE THEN "remove"
    ELSE "none"

\* The loop of _commit from entry i on: issued logs each operation with the
\* 0-based index of its entry; an operation that raises ends the loop.
RECURSIVE CommitLoop(_, _, _, _, _, _)
CommitLoop(f, base, rens, acts, i, issued) ==
    IF i > Len(rens) THEN [exc |-> "", fs |-> f, ops |-> issued]
    ELSE LET original == rens[i][1]
             newName == rens[i][2]
             op == CommitOp(acts[i], original, newName)
             originalPath == JoinPath(base, original)
             newPath == JoinPath(base, newName)
         IN IF op = "none" THEN CommitLoop(f, base, rens, acts, i + 1, issued)
            ELSE Let(IF op = "move" THEN ShutilMove(f, originalPath, newPath)
                     ELSE Remove(f, originalPath), LAMBDA res :
                 Let(Append(issued, [index |-> i - 1, op |-> op, src |-> original,
                                     dst |-> IF op = "move" THEN newName ELSE <<>>,
                                     ok |-> res.ok]), LAMBDA issued2 :
                    IF ~res.ok
                    THEN [exc |-> IF op = "move" THEN "OSError" ELSE "ValueError",
                          fs |-> f, ops |-> issued2]
                    ELSE CommitLoop(res.fs, base, rens, acts, i + 1, issued2)))

\* _commit(): the operations of the plan, in order, on the disk.
Commit(f, base, rens, acts) == CommitLoop(f, base, rens, acts, 1, <<>>)

\* ---------------------------------------------------- command arguments

\* The first part of _parseIndex(arg): the match of r'^(-?\d+)\s*.*$' on the
\* stripped argument, the integer of its group and what follows it, stripped.
ParseArg(arg) ==
    Let(Strip(arg), LAMBDA a :
        LET sign == IF a # <<>> /\ a[1] = "-" THEN 1 ELSE 0
        IN Let(DigitsEnd(a, sign + 1), LAMBDA e :
              IF e = sign + 1
              THEN [matched |-> FALSE, index |-> 0, rest |-> a]
              ELSE [matched |-> TRUE,
                    index |-> (IF sign = 1 THEN -1 ELSE 1) * IntOf(SubSeq(a, sign + 1, e - 1)),
                    rest |-> Strip(SubSeq(a, e, Len(a)))]))

\* A variant of the range test that lets a negative index count from the
\* end, as a Python list does.
CheckIndex_WrapsNegative(m, n) ==
    IF ~m.matched
    THEN [ok |-> FALSE, index |-> 0, rest |-> m.rest, err |-> "Expecting index"]
    ELSE IF m.index < -n \/ m.index >= n
    THEN [ok |-> FALSE, index |-> m.index, rest |-> m.rest, err |-> "Index out of range"]
    ELSE [ok |-> TRUE, index |-> IF m.index < 0 THEN m.index + n ELSE m.index,
          rest |-> m.rest, err |-> ""]

\* The second part of _parseIndex against n entries: index is None
\* (ok = FALSE) when the argument does not start with an integer or the
\* integer is outside [0, n).  The test "self.renames[index] is None" never
\* holds: an entry is a two-element list.
CheckIndex(m, n) ==
    IF ~m.matched
    THEN [ok |-> FALSE, index |-> 0, rest |-> m.rest, err |-> "Expecting index"]
    ELSE IF m.index < 0 \/ m.index >= n
    THEN [ok |-> FALSE, index |-> m.index, rest |-> m.rest, err |-> "Index out of range"]
    ELSE [ok |-> TRUE, index |-> m.index, rest |-> m.rest, err |-> ""]

\* _parseIndex(arg) against n entries.
ParseIndex(arg, n) == Let(ParseArg(arg), LAMBDA m : CheckIndex(m, n))

\* re.match(r'^\d+$', arg)
AllDigits(a) == a # <<>> /\ \A i \in 1..Len(a) : a[i] \in Digits

\* The components of a path string: the pieces between "/".
RECURSIVE SplitPath(_, _)
SplitPath(s, cur) ==
    IF s = <<>> THEN (IF cur = <<>> THEN <<>> ELSE <<cur>>)
    ELSE IF s[1] = "/" THEN (IF cur = <<>> THEN <<>> ELSE <<cur>>) \o SplitPath(Tail(s), <<>>)
    ELSE SplitPath(Tail(s), Append(cur, s[1]))

\* os.path.join(base, arg) for a path string without "." and "..": arg
\* itself when it is absolute.
JoinArg(base, a) == IF a # <<>> /\ a[1] = "/" THEN SplitPath(a, <<>>) ELSE base \o SplitPath(a, <<>>)

\* A path string that ends with "/" names its last component as a directory.
EndsWithSlash(a) == a # <<>> /\ a[Len(a)] = "/"

\* os.path.exists of a path string with components p: the path is there,
\* and it is a directory when the string ends with "/" (stat of a file
\* followed by "/" fails).
OsPathExists(f, p, asDir) == PathExists(f, p) /\ (asDir => PathIsDir(f, p))

\* os.path.basename of a normalised path.
BaseNameOf(p) == IF p = <<>> THEN <<>> ELSE p[Len(p)]

\* A variant of the choice of do_type that takes only the letters n, s, c
\* and the words none, series, chapter.
TypeOfArg_ExactWords(arg) ==
    Let(ToLower(Strip(arg)), LAMBDA a :
        IF a \in {<<"n">>, <<"n", "o", "n", "e">>} THEN TYPE_NONE
        ELSE IF a \in {<<"s">>, <<"s", "e", "r", "i", "e", "s">>} THEN TYPE_SERIES
        ELSE IF a \in {<<"c">>, <<"c", "h", "a", "p", "t", "e", "r">>} THEN TYPE_CHAPTER
        ELSE "")

\* The classification do_type reads from its argument: decided by the first
\* character of the lowered argument; "" when it is rejected.
TypeOfArg(arg) ==
    Let(ToLower(Strip(arg)), LAMBDA a :
        IF a = <<>> \/ a[1] = "n" THEN TYPE_NONE
        ELSE IF a[1] = "s" THEN TYPE_SERIES
        ELSE IF a[1] = "c" THEN TYPE_CHAPTER
        ELSE "")

\* ------------------------------------------------------------------ inputs

NameX == <<"X">>
NameA == <<"a", ".", "j", "p", "g">>
NameB == <<"b", ".", "j", "p", "g">>
NameC == <<"c", ".", "j", "p", "g">>
NameC1 == <<"c", "1", ".", "j", "p", "g">>
NameRange == <<"7", "-", "1", "5", "b", ".", "p", "n", "g">>
NameV2 == <<"v", "2">>
NameNine == <<"9", ".", "j", "p", "g">>
NameN == <<"n">>

\* Pages named by their number alone: every string of up to MaxDigits digits
\* drawn from 0, 1 and 9, leading zeros included, followed by .jpg.
DigitStrings == UNION {[1..n -> {"0", "1", "9"}] : n \in 1..MaxDigits}
PageName(d) == d \o <<".", "j", "p", "g">>
PageNames == {PageName(d) : d \in DigitStrings}

\* The directory the session starts in, /X, holds one of these listings:
\* names without a number, a name whose number repeats a fallback number, a
\* name with a range and a suffix letter, and the directory v2, which holds
\* one page.
FilePool == {NameA, NameB, NameC, NameC1, NameRange} \cup PageNames
DirPool == {NameV2}
StartListings == { {}, {NameA, NameB, NameC}, {NameA, NameC1}, {NameA, NameRange},
                   {NameA, NameV2} }
RootPath == <<NameX>>

StartFs(S) ==
    LET files == {Append(RootPath, n) : n \in S \cap FilePool}
        dirs == {RootPath} \cup {Append(RootPath, n) : n \in S \cap DirPool}
        pages == {RootPath \o <<n, NameNine>> : n \in S \cap DirPool}
    IN [q \in files \cup dirs \cup pages |-> [dir |-> q \in dirs, id |-> q]]

\* The arguments the operator types.
Idx(k) == StrOf(k)
EditArgs == {Idx(0) \o <<" ">> \o NameB, Idx(1) \o <<" ">> \o NameN, Idx(1),
             Idx(9) \o <<" ">> \o NameN, <<"-", "1", " ">> \o NameN, NameN}
IndexArgs == {Idx(0), Idx(1), Idx(9), <<"-", "1">>, NameN}
CdArgs == {Idx(1), Idx(9), NameV2, NameA, NameA \o <<"/">>, <<"z", "z">>,
           <<"/">> \o NameX}
TypeArgs == {<<>>, <<"n">>, <<"s">>, <<"c">>, <<"C", "h", "a", "p", "t", "e", "r">>,
             <<"s", "x">>, <<"x">>}
BulkArgs == BulkPatterns \cup {<<>>}

\* -------------------------------------------------------------------- state

VARIABLES
    fs,         \* the disk
    basePath,   \* self.basePath, a path
    baseName,   \* self.baseName
    dirType,    \* self.dirType
    renames,    \* self.renames: a sequence of <<original, proposed>>
    actions,    \* self.actions
    status,     \* "running"; "quit" after the loop ended; "crashed" after an exception left it
    ncmds,      \* commands dispatched so far
    buildLog,   \* what the last _reload built each entry from
    ops,        \* the operations the last _commit issued
    consumed,   \* how many times _commit has run on the plan as last built
    builds,     \* how many times _reload has run
    reported    \* the ERROR line the last command printed, "" when it printed none

vars == <<fs, basePath, baseName, dirType, renames, actions, status, ncmds,
          buildLog, ops, consumed, builds, reported>>

\* ParseArg of the arguments the commands are given here, parsed once.
ParsedArgs == [a \in EditArgs \cup IndexArgs \cup CdArgs |-> ParseArg(a)]

\* _parseIndex(arg) against the entries of the session.
ParseIndexNow(arg) ==
    IF arg \in DOMAIN ParsedArgs THEN CheckIndex(ParsedArgs[arg], Len(renames))
    ELSE ParseIndex(arg, Len(renames))

\* The listing _reload scans.
Dirents(f, base) == SortedNames(ListDir(f, base))

\* A variant of _reload that keeps the old actions when the listing has as
\* many entries as before.
Reload_KeepActions(f, base, bName, dType, oldActions, numberRegex) ==
    Let(<<Dirents(f, base), numberRegex>>, LAMBDA in :
    Let(ReloadLoop(dType, bName, in[1], in[2], 1,
                   [nextNumber |-> 1, out |-> <<>>, log |-> <<>>]), LAMBDA r :
        [exc |-> r.exc, renames |-> r.renames, log |-> r.log,
         actions |-> IF r.exc = "" /\ Len(oldActions) # Len(r.renames)
                     THEN [i \in 1..Len(r.renames) |-> ACTION_RENAME]
                     ELSE oldActions]))

\* _reload(numberRegex): self.renames is emptied and refilled entry by entry;
\* self.actions is replaced only when the loop ends.
Reload(f, base, bName, dType, oldActions, numberRegex) ==
    Let(<<Dirents(f, base), numberRegex>>, LAMBDA in :
    Let(ReloadLoop(dType, bName, in[1], in[2], 1,
                   [nextNumber |-> 1, out |-> <<>>, log |-> <<>>]), LAMBDA r :
        [exc |-> r.exc, renames |-> r.renames, log |-> r.log,
         actions |-> IF r.exc = "" THEN [i \in 1..Len(r.renames) |-> ACTION_RENAME]
                     ELSE oldActions]))

\* RenameShell(basePath) on a disk that holds listing S in /X: classification
\* None, plan built by _reload().
InitOn(S) ==
    /\ fs = StartFs(S)
    /\ basePath = RootPath
    /\ baseName = BaseNameOf(RootPath)
    /\ dirType = TYPE_NONE
    /\ \E r \in {Reload(StartFs(S), RootPath, BaseNameOf(RootPath), TYPE_NONE,
                        <<>>, NUMBER_REGEX)} :
          /\ renames = r.renames
          /\ actions = r.actions
          /\ buildLog = r.log
    /\ status = "running"
    /\ ncmds = 0
    /\ ops = <<>>
    /\ consumed = 0
    /\ builds = 1
    /\ reported = ""

Init == \E S \in StartListings : InitOn(S)

\* The command loop reads one more line.
Dispatch ==
    /\ status = "running"
    /\ ncmds < MaxCmds
    /\ ncmds' = ncmds + 1

\* The part of a handler that runs _reload.
DoReload(numberRegex) ==
    /\ builds' = builds + 1
    /\ consumed' = 0
    /\ \E r \in {Reload(fs, basePath', baseName', dirType', actions, numberRegex)} :
          /\ renames' = r.renames
          /\ actions' = r.actions
          /\ buildLog' = r.log
          /\ status' = IF r.exc = "" THEN "running" ELSE "crashed"

do_bulk(arg) ==
    /\ Dispatch
    /\ \E a \in {Strip(arg)} :
        IF a = <<>>
        THEN /\ reported' = "Found no pattern for bulk rename."
             /\ UNCHANGED <<fs, basePath, baseName, dirType, renames, actions, status,
                            buildLog, ops, consumed, builds>>
        ELSE /\ reported' = ""
             /\ UNCHANGED <<fs, basePath, baseName, dirType, ops>>
             /\ DoReload(a)

\* The path do_cd resolves its argument to: the entry at an index when the
\* argument is all digits (self.renames[None], a TypeError, when _parseIndex
\* rejects it), else the argument joined to basePath.
CdTarget(arg) ==
    Let(Strip(arg), LAMBDA a :
        IF AllDigits(a)
        THEN Let(ParseIndexNow(a), LAMBDA p :
                IF p.ok THEN [exc |-> "", path |-> JoinPath(basePath, renames[p.index + 1][1]),
                              asDir |-> FALSE, printed |-> ""]
                ELSE [exc |-> "TypeError", path |-> <<>>, asDir |-> FALSE,
                      printed |-> p.err])
        ELSE [exc |-> "", path |-> JoinArg(basePath, a), asDir |-> EndsWithSlash(a),
              printed |-> ""])

do_cd(arg) ==
    /\ Dispatch
    /\ \E target \in {CdTarget(arg)} :
        IF target.exc # ""
        THEN /\ status' = "crashed"
             /\ reported' = target.printed
             /\ UNCHANGED <<fs, basePath, baseName, dirType, renames, actions,
                            buildLog, ops, consumed, builds>>
        ELSE IF ~OsPathExists(fs, target.path, target.asDir)
        THEN /\ reported' = "Directory does not exist"
             /\ UNCHANGED <<fs, basePath, baseName, dirType, renames, actions, status,
                            buildLog, ops, consumed, builds>>
        ELSE IF ~PathIsDir(fs, target.path)
        THEN /\ reported' = "Path is not a directory"
             /\ UNCHANGED <<fs, basePath, baseName, dirType, renames, actions, status,
                            buildLog, ops, consumed, builds>>
        ELSE /\ reported' = ""
             /\ basePath' = target.path
             /\ baseName' = BaseNameOf(target.path)
             /\ dirType' = TYPE_NONE
             /\ UNCHANGED <<fs, ops>>
             /\ DoReload(NUMBER_REGEX)

\* "if (arg is None)" never holds: _parseIndex returns a string, '' when no
\* new name was given.
do_edit(arg) ==
    /\ Dispatch
    /\ \E p \in {ParseIndexNow(arg)} :
           /\ reported' = p.err
           /\ IF ~p.ok
              THEN UNCHANGED <<renames, actions>>
              ELSE /\ actions' = [actions EXCEPT ![p.index + 1] = ACTION_RENAME]
                   /\ renames' = [renames EXCEPT ![p.index + 1][2] = p.rest]
    /\ UNCHANGED <<fs, basePath, baseName, dirType, status, buildLog, ops, consumed, builds>>

do_ignore(arg) ==
    /\ Dispatch
    /\ \E p \in {ParseIndexNow(arg)} :
           /\ reported' = p.err
           /\ IF ~p.ok
              THEN UNCHANGED actions
              ELSE actions' = [actions EXCEPT ![p.index + 1] = ACTION_IGNORE]
    /\ UNCHANGED <<fs, basePath, baseName, dirType, renames, status, buildLog, ops, consumed, builds>>

\* A variant of do_rm that removes the entry from the disk at once.
do_rm_OnDisk(arg) ==
    /\ Dispatch
    /\ \E p \in {ParseIndexNow(arg)} :
           /\ reported' = p.err
           /\ IF ~p.ok
              THEN UNCHANGED <<actions, fs>>
              ELSE /\ actions' = [actions EXCEPT ![p.index + 1] = ACTION_DELETE]
                   /\ fs' = Remove(fs, JoinPath(basePath, renames[p.index + 1][1])).fs
    /\ UNCHANGED <<basePath, baseName, dirType, renames, status, buildLog, ops, consumed, builds>>

do_rm(arg) ==
    /\ Dispatch
    /\ \E p \in {ParseIndexNow(arg)} :
           /\ reported' = p.err
           /\ IF ~p.ok
              THEN UNCHANGED actions
              ELSE actions' = [actions EXCEPT ![p.index + 1] = ACTION_DELETE]
    /\ UNCHANGED <<fs, basePath, baseName, dirType, renames, status, buildLog, ops, consumed, builds>>

do_help ==
    /\ Dispatch
    /\ reported' = ""
    /\ UNCHANGED <<fs, basePath, baseName, dirType, renames, actions, status,
                   buildLog, ops, consumed, builds>>

do_ls ==
    /\ Dispatch
    /\ reported' = ""
    /\ UNCHANGED <<fs, basePath, baseName, dirType, renames, actions, status,
                   buildLog, ops, consumed, builds>>

\* do_quit, and do_EOF which calls it: returning True ends the loop.
do_quit ==
    /\ Dispatch
    /\ reported' = ""
    /\ status' = "quit"
    /\ UNCHANGED <<fs, basePath, baseName, dirType, renames, actions,
                   buildLog, ops, consumed, builds>>

do_reload ==
    /\ Dispatch
    /\ reported' = ""
    /\ UNCHANGED <<fs, basePath, baseName, dirType, ops>>
    /\ DoReload(NUMBER_REGEX)

do_type(arg) ==
    /\ Dispatch
    /\ \E newType \in {TypeOfArg(arg)} :
        IF newType = "" THEN reported' = "Unknown type" /\ UNCHANGED dirType
        ELSE reported' = "" /\ dirType' = newType
    /\ UNCHANGED <<fs, basePath, baseName, renames, actions, status, buildLog, ops, consumed, builds>>

\* do_write: _commit(), then the loop goes on (nothing is returned); an
\* exception of _commit leaves the loop.
do_write ==
    /\ Dispatch
    /\ reported' = ""
    /\ \E c \in {Commit(fs, basePath, renames, actions)} :
          /\ fs' = c.fs
          /\ ops' = c.ops
          /\ status' = IF c.exc = "" THEN "running" ELSE "crashed"
    /\ consumed' = consumed + 1
    /\ UNCHANGED <<basePath, baseName, dirType, renames, actions, buildLog, builds>>

Next ==
    \/ \E arg \in BulkArgs : do_bulk(arg)
    \/ \E arg \in CdArgs : do_cd(arg)
    \/ \E arg \in EditArgs : do_edit(arg)
    \/ \E arg \in IndexArgs : do_ignore(arg)
    \/ \E arg \in IndexArgs : do_rm(arg)
    \/ do_help
    \/ do_ls
    \/ do_quit
    \/ do_reload
    \/ \E arg \in TypeArgs : do_type(arg)
    \/ do_write

Spec == Init /\ [][Next]_vars

\* The sessions on a directory that holds one page named by its number: the
\* constructor and every reload hand the digits to _parseAndPad.
InitPages == \E d \in DigitStrings : InitOn({PageName(d)})

NextPages ==
    \/ do_reload
    \/ \E arg \in TypeArgs : do_type(arg)

SpecPages == InitPages /\ [][NextPages]_vars

\* ---------------------------------------------------------------- properties

\* The operation the plan asks of entry i (1-based): a move for a Rename
\* entry whose proposed name differs, a removal for a Delete entry, nothing
\* for the rest.
PlanOp(i) ==
    IF actions[i] = "D" THEN "remove"
    ELSE IF actions[i] = "R" /\ renames[i][1] # renames[i][2] THEN "move"
    ELSE "none"

\* The 0-based index of the entry the last logged operation was issued for.
LastIssued(o) == IF o = <<>> THEN -1 ELSE o[Len(o)].index

SameNames == \A i \in 1..Len(renames) : renames[i][1] = renames[i][2]

\* C1: commit visits the entries in ascending index order and issues for
\* each entry it visits exactly the operation the plan asks: a move from
\* original to proposed for a Rename entry with a new name, a removal of
\* the original for a Delete entry, nothing for an Ignore entry or a Rename
\* entry whose proposed name is the original.  (Every entry is visited when
\* the commit completes; an operation that raises is the last one issued.)
C1_CommitInOrder ==
    [][do_write =>
        /\ \A k \in 1..(Len(ops') - 1) : ops'[k].index < ops'[k + 1].index
        /\ \A k \in 1..Len(ops') :
              LET i == ops'[k].index + 1
              IN /\ i \in 1..Len(renames)
                 /\ ops'[k].op # "none"
                 /\ ops'[k].op = PlanOp(i)
                 /\ ops'[k].src = renames[i][1]
                 /\ ops'[k].op = "move" => ops'[k].dst = renames[i][2]
        /\ \A i \in 1..Len(renames) :
              (PlanOp(i) # "none" /\ (status' = "running" \/ i - 1 <= LastIssued(ops')))
                  => \E k \in 1..Len(ops') : ops'[k].index = i - 1
    ]_vars

\* A completed commit that moved one entry, removed another and passed over a third.
C1_Witness ==
    /\ status = "running"
    /\ consumed = 1
    /\ \E k \in 1..Len(ops) : ops[k].op = "move" /\ ops[k].ok
    /\ \E k \in 1..Len(ops) : ops[k].op = "remove" /\ ops[k].ok
    /\ \E i \in 1..Len(renames) : PlanOp(i) = "none"
    /\ \A k \in 1..Len(ops) : PlanOp(ops[k].index + 1) = ops[k].op

\* C2: only write changes the disk: every step that changes the disk is a
\* step of do_write, so a session that never ran write leaves the disk as
\* it found it.
C2_DiskChangesOnlyInWrite == [][fs' # fs => do_write]_vars

\* A session ended by quit with an entry marked Delete, whose file is
\* still on the untouched disk.
C2_Witness ==
    /\ status = "quit"
    /\ consumed = 0
    /\ ops = <<>>
    /\ \E S \in StartListings : fs = StartFs(S)
    /\ \E i \in 1..Len(renames) :
          /\ actions[i] = "D"
          /\ PathExists(fs, JoinPath(basePath, renames[i][1]))
    /\ \E i \in 1..Len(renames) : renames[i][1] # renames[i][2]

\* C3: write ends the command loop, so that no command is dispatched after
\* it and a plan is committed at most once.
C3_WriteEndsLoop ==
    /\ consumed >= 1 => status # "running"
    /\ consumed <= 1

\* C4: when an operation of commit fails, commit goes on to the remaining
\* entries: the operation of every later entry is still attempted.
C4_LaterEntriesAttempted ==
    [][do_write =>
        \A i \in 1..Len(renames) :
            PlanOp(i) # "none" => \E k \in 1..Len(ops') : ops'[k].index = i - 1
    ]_vars

\* C5 as stated: committing a plan in which every proposed name is the
\* original performs no operation on the disk.
C5_SameNamesNoMutation ==
    [][(do_write /\ SameNames) => (ops' = <<>> /\ fs' = fs)]_vars

\* C5, amended: committing a plan in which every proposed name is the
\* original and no entry is marked Delete performs no operation on the disk.
C5_SameNamesNoDeleteNoMutation ==
    [][(do_write /\ SameNames /\ \A i \in 1..Len(actions) : actions[i] # "D")
        => (ops' = <<>> /\ fs' = fs)]_vars

\* A commit of a plan of several entries, one of them ignored, none renamed
\* or deleted, that issued nothing.
C5_Witness ==
    /\ consumed >= 1
    /\ status = "running"
    /\ Len(renames) >= 2
    /\ SameNames
    /\ \A i \in 1..Len(actions) : actions[i] # "D"
    /\ \E i \in 1..Len(actions) : actions[i] = "I"
    /\ ops = <<>>
    /\ \E S \in StartListings : fs = StartFs(S)

\* A step in which _reload ran (reload, bulk, or a cd that found its
\* directory) and returned.
Rebuilds == builds' = builds + 1 /\ status' = "running"

\* Such a step of reload or bulk: cd is the one that sets the classification.
ReloadOrBulk ==
    /\ Rebuilds
    /\ basePath' = basePath
    /\ dirType' = dirType
    /\ do_reload \/ \E arg \in BulkArgs : do_bulk(arg)

\* Where the extension of a name starts: at its last ".", or past its end.
ExtStart(name) ==
    IF \E j \in 1..Len(name) : name[j] = "."
    THEN CHOOSE j \in 1..Len(name) :
            name[j] = "." /\ \A l \in (j + 1)..Len(name) : name[l] # "."
    ELSE Len(name) + 1

\* proposed is what classification dType makes of original under bName
\* with number token: the original itself, "<bName> c<token><ext>" or
\* "<bName> p<token><ext>".
NamedByTemplate(original, proposed, dType, bName, token) ==
    LET ext == SubSeq(original, ExtStart(original), Len(original))
    IN IF dType = "None" THEN proposed = original
       ELSE IF dType = "Series" THEN proposed = bName \o <<" ", "c">> \o token \o ext
       ELSE dType = "Chapter" /\ proposed = bName \o <<" ", "p">> \o token \o ext

\* C6: after a build of the plan (reload, bulk, cd) every entry's proposed
\* name follows the classification: the original under None, base name,
\* " c", token and extension under Series, base name, " p", token and
\* extension under Chapter, the token starting with at least three digits.
C6_NamingTemplates ==
    [][Rebuilds =>
        /\ Len(buildLog') = Len(renames')
        /\ \A i \in 1..Len(renames') :
              /\ NamedByTemplate(renames'[i][1], renames'[i][2], dirType', baseName',
                                 buildLog'[i].number)
              /\ Len(buildLog'[i].number) >= 3
              /\ \A j \in 1..3 : buildLog'[i].number[j] \in Digits
    ]_vars

\* The plan built for a.jpg, b.jpg, c.jpg of directory X under Chapter.
C6_Witness ==
    /\ dirType = "Chapter"
    /\ status = "running"
    /\ renames = << <<NameA, <<"X", " ", "p", "0", "0", "1", ".", "j", "p", "g">> >>,
                    <<NameB, <<"X", " ", "p", "0", "0", "2", ".", "j", "p", "g">> >>,
                    <<NameC, <<"X", " ", "p", "0", "0", "3", ".", "j", "p", "g">> >> >>

\* C7: the fallback counter of a build starts at 1 and after each entry
\* becomes the greater of itself and the highest number the entry consumed,
\* plus 1; so the number a digit-less entry falls back to is the counter,
\* is greater than every number an earlier entry consumed, and a listing
\* without numbers gets 001, 002, ... in sorted order.
C7_FallbackCounter ==
    /\ \A i \in 1..Len(buildLog) :
          buildLog[i].backup =
              IF i = 1 THEN 1
              ELSE IF buildLog[i - 1].backup >= buildLog[i - 1].highest
                   THEN buildLog[i - 1].backup + 1
                   ELSE buildLog[i - 1].highest + 1
    /\ \A j \in 1..Len(buildLog) :
          ~buildLog[j].matched =>
              /\ buildLog[j].highest = buildLog[j].backup
              /\ \A i \in 1..(j - 1) : buildLog[j].backup > buildLog[i].highest
    /\ (Len(buildLog) <= 9 /\ \A i \in 1..Len(buildLog) : ~buildLog[i].matched) =>
          \A i \in 1..Len(buildLog) : buildLog[i].number = <<"0", "0", DigitChars[i + 1]>>

\* A build in which a.jpg, after 7-15b.png consumed 7 to 15, fell back to 016.
C7_Witness ==
    /\ Len(buildLog) = 2
    /\ Len(renames) = 2
    /\ renames[1][1] = NameRange
    /\ buildLog[1].matched /\ buildLog[1].highest = 15
    /\ renames[2][1] = NameA
    /\ ~buildLog[2].matched
    /\ buildLog[2].backup = 16
    /\ buildLog[2].number = <<"0", "1", "6">>

HasDigit(s) == \E j \in 1..Len(s) : s[j] \in Digits

\* The last maximal run of digits of a name that has a digit.
LastDigitRun(s) ==
    LET e == CHOOSE j \in 1..Len(s) :
                s[j] \in Digits /\ \A l \in (j + 1)..Len(s) : s[l] \notin Digits
        b == CHOOSE j \in 1..e :
                /\ \A l \in j..e : s[l] \in Digits
                /\ j = 1 \/ s[j - 1] \notin Digits
    IN SubSeq(s, b, e)

\* C8: bulk with a one-group pattern takes as the number text the whole
\* substring its last match captured: after bulk (\d+) the number token
\* of every entry with a digit is the canonical form of its last digit run.
C8_BulkUsesWholeCapture ==
    [][(do_bulk(PatDigits) /\ status' = "running") =>
        \A i \in 1..Len(renames') :
            HasDigit(renames'[i][1]) =>
                buildLog'[i].number = ParseAndPad(LastDigitRun(renames'[i][1])).text
    ]_vars

\* C9: after reload or a successful bulk the entries are those of a fresh
\* scan of the directory, in sorted order, every proposed name is what the
\* classification derives, and every action is Rename.
C9_RebuildResetsPlan ==
    [][ReloadOrBulk =>
        /\ Len(renames') = Cardinality(ListDir(fs, basePath))
        /\ {renames'[i][1] : i \in 1..Len(renames')} = ListDir(fs, basePath)
        /\ \A i \in 1..(Len(renames') - 1) : StrLess(renames'[i][1], renames'[i + 1][1])
        /\ \A i \in 1..Len(renames') :
              NamedByTemplate(renames'[i][1], renames'[i][2], dirType, baseName,
                              buildLog'[i].number)
        /\ Len(actions') = Len(renames')
        /\ \A i \in 1..Len(actions') : actions'[i] = "R"
    ]_vars

\* A plan rebuilt after a.jpg, marked Delete, was committed away: b.jpg
\* and c.jpg are its entries and no mark is left.
C9_Witness ==
    /\ status = "running"
    /\ consumed = 0
    /\ basePath = RootPath
    /\ ListDir(fs, RootPath) = {NameB, NameC}
    /\ Len(renames) = 2
    /\ renames[1][1] = NameB /\ renames[2][1] = NameC
    /\ actions = <<"R", "R">>

\* C10: every command leaves the entries either completely rebuilt or as
\* they were: no state has a partially rebuilt entry list, or an entry
\* list and an action list of different lengths.
C10_EntriesWholeOrUntouched == Len(renames) = Len(actions)

\* C11: bulk with a pattern of two capture groups reports an error and
\* leaves every proposed name and every action as it was.
C11_TwoGroupBulkRejected ==
    [][do_bulk(PatPair) =>
        (reported' # "" /\ renames' = renames /\ actions' = actions)]_vars

\* An argument that starts with an index: an optional "-" and digits.
StartsWithIndex(a) ==
    \/ a # <<>> /\ a[1] \in Digits
    \/ Len(a) >= 2 /\ a[1] = "-" /\ a[2] \in Digits

\* The index an argument starts with.
LeadingIndex(a) ==
    IF a[1] = "-" THEN 0 - IntOf(SubSeq(a, 2, DigitsEnd(a, 2) - 1))
    ELSE IntOf(SubSeq(a, 1, DigitsEnd(a, 1) - 1))

\* The index of each argument given to edit, ignore and rm that starts with one.
IndexOfArg ==
    [a \in {b \in EditArgs \cup IndexArgs : StartsWithIndex(b)} |-> LeadingIndex(a)]

\* An argument whose index is negative or not below the number of entries.
OutOfRange(a) ==
    a \in DOMAIN IndexOfArg /\ (IndexOfArg[a] < 0 \/ IndexOfArg[a] >= Len(renames))

\* A step that leaves everything but the plan and the report as it was, as
\* every step of edit, ignore and rm does.
PlanStep ==
    /\ ncmds' = ncmds + 1
    /\ status' = status
    /\ UNCHANGED <<fs, basePath, baseName, dirType, buildLog, ops, consumed, builds>>

\* C12: edit, ignore and rm given an index that is negative or not below
\* the number of entries report the index error and leave the entries and
\* the actions exactly as they were (and the disk, the classification and
\* the session with them).
C12_BadIndexLeavesPlan ==
    [][(\/ \E arg \in EditArgs : OutOfRange(arg) /\ do_edit(arg)
        \/ \E arg \in IndexArgs : OutOfRange(arg) /\ (do_ignore(arg) \/ do_rm(arg)))
       => /\ reported' = "Index out of range"
          /\ renames' = renames
          /\ actions' = actions
          /\ PlanStep
    ]_vars

\* A plan that still has its edit and its Delete mark after a command
\* reported an index out of range.
C12_Witness ==
    /\ status = "running"
    /\ reported = "Index out of range"
    /\ \E i \in 1..Len(actions) : actions[i] = "D"
    /\ \E i \in 1..Len(renames) : renames[i][1] # renames[i][2]

\* An argument that starts with the index of entry i (1-based here).
AddressesEntry(arg, i) == arg \in DOMAIN IndexOfArg /\ IndexOfArg[arg] = i - 1

\* C13: once an entry's action is Ignore, no command short of a rebuild of
\* the plan changes it: a later edit, ignore or rm at its index reports an
\* error and leaves its action Ignore and its proposed name as it was.
C13_IgnoredEntryFrozen ==
    [][(builds' = builds /\ Len(renames') = Len(renames)) =>
        \A i \in 1..Len(actions) :
            actions[i] = "I" =>
                /\ actions'[i] = "I"
                /\ renames'[i] = renames[i]
                /\ (\/ \E arg \in EditArgs : AddressesEntry(arg, i) /\ do_edit(arg)
                    \/ \E arg \in IndexArgs :
                          AddressesEntry(arg, i) /\ (do_ignore(arg) \/ do_rm(arg)))
                   => reported' # ""
    ]_vars

\* C14: edit with a valid index and an empty new name reports the missing
\* name and leaves the entry's proposed name and action as they were.
C14_EmptyNameRejected ==
    [][\A arg \in EditArgs :
          (/\ arg \in DOMAIN IndexOfArg
           /\ ~OutOfRange(arg)
           /\ ParsedArgs[arg].rest = <<>>
           /\ do_edit(arg))
          => /\ reported' # ""
             /\ renames' = renames
             /\ actions' = actions
    ]_vars

\* C15: a cd whose target (a path, or the entry at an index, in range or
\* not) is not an existing directory reports an error, leaves basePath,
\* baseName, classification, entries and actions as they were, and the
\* session goes on.
C15_FailedCdLeavesSession ==
    [][\A arg \in CdArgs :
          (/\ CdTarget(arg).exc # "" \/ ~PathIsDir(fs, CdTarget(arg).path)
           /\ do_cd(arg))
          => /\ reported' # ""
             /\ status' = "running"
             /\ UNCHANGED <<basePath, baseName, dirType, renames, actions>>
    ]_vars

\* The arguments given to type, stripped and lower-cased.
LoweredTypeArg == [a \in TypeArgs |-> ToLower(Strip(a))]

\* The classification each accepted word stands for.
TypeWords ==
    [w \in {<<"n">>, <<"n", "o", "n", "e">>, <<"s">>, <<"s", "e", "r", "i", "e", "s">>,
            <<"c">>, <<"c", "h", "a", "p", "t", "e", "r">>} |->
        IF w[1] = "n" THEN "None" ELSE IF w[1] = "s" THEN "Series" ELSE "Chapter"]

\* C16 as stated: type sets the classification exactly when its argument
\* is, whatever its case, one of n, none, s, series, c, chapter; any other
\* argument is rejected with an error and changes nothing.  (Stated for the
\* arguments that are not blank.)
C16_TypeTakesExactWords ==
    [][\A arg \in TypeArgs :
          (LoweredTypeArg[arg] # <<>> /\ do_type(arg)) =>
              /\ renames' = renames /\ actions' = actions
              /\ IF LoweredTypeArg[arg] \in DOMAIN TypeWords
                 THEN dirType' = TypeWords[LoweredTypeArg[arg]] /\ reported' = ""
                 ELSE dirType' = dirType /\ reported' = "Unknown type"
    ]_vars

\* C16, amended: type sets the classification by the first letter of its
\* stripped, lower-cased argument: None for an empty argument or n, Series
\* for s, Chapter for c, whatever follows the letter; an argument that
\* starts otherwise is rejected with an error and leaves the classification
\* as it was.  The entries are unchanged either way.
C16_TypeTakesFirstLetter ==
    [][\A arg \in TypeArgs :
          do_type(arg) =>
              LET a == LoweredTypeArg[arg]
              IN /\ renames' = renames /\ actions' = actions
                 /\ IF a = <<>> \/ a[1] = "n" THEN dirType' = "None" /\ reported' = ""
                    ELSE IF a[1] = "s" THEN dirType' = "Series" /\ reported' = ""
                    ELSE IF a[1] = "c" THEN dirType' = "Chapter" /\ reported' = ""
                    ELSE dirType' = dirType /\ reported' = "Unknown type"
    ]_vars

\* A session in which type set Series, the plan was left as built under
\* None, and a later type with an unknown letter was rejected.
C16_Witness ==
    /\ status = "running"
    /\ dirType = "Series"
    /\ reported = "Unknown type"
    /\ builds = 1
    /\ Len(renames) >= 2
    /\ SameNames

\* C17: as the help text says, bulk changes only the proposed names of the
\* entries its pattern matches: after bulk (\d+) an entry without a digit
\* is as it was, and an entry marked Ignore or Delete still has its action.
C17_BulkKeepsMarksAndUnmatched ==
    [][do_bulk(PatDigits) =>
        /\ status' = "running"
        /\ Len(renames') = Len(renames)
        /\ Len(actions') = Len(actions)
        /\ \A i \in 1..Len(renames) :
              /\ actions[i] \in {"I", "D"} => actions'[i] = actions[i]
              /\ ~HasDigit(renames[i][1]) => renames'[i] = renames[i]
    ]_vars

\* The files and directories a disk holds, by what they were at the start.
Held(f) == {f[q].id : q \in DOMAIN f}

DistinctProposed == \A i, j \in 1..Len(renames) : i # j => renames[i][2] # renames[j][2]

\* C18: committing a plan without a Delete entry whose proposed names are
\* pairwise distinct destroys no file: everything the disk held before the
\* commit it holds after it.
C18_CommitDestroysNothing ==
    [][(/\ do_write
        /\ \A i \in 1..Len(actions) : actions[i] # "D"
        /\ DistinctProposed)
       => Held(fs) \subseteq Held(fs')
    ]_vars

\* C19: a build under Series or Chapter proposes pairwise distinct names.
C19_BuildProposesDistinctNames ==
    [][(Rebuilds /\ dirType' \in {"Series", "Chapter"}) =>
        \A i, j \in 1..Len(renames') : i # j => renames'[i][2] # renames'[j][2]
    ]_vars

\* C20: when the pattern does not compile, or what it captures is not a
\* number, the build goes on through the whole listing and every entry is
\* numbered from the fallback counter.
C20_FailedExtractionFallsBack ==
    [][\A arg \in {PatBad, PatAlpha} :
          do_bulk(arg) =>
              /\ status' = "running"
              /\ Len(renames') = Cardinality(ListDir(fs, basePath))
              /\ Len(buildLog') = Len(renames')
              /\ \A i \in 1..Len(buildLog') :
                    /\ buildLog'[i].highest = buildLog'[i].backup
                    /\ buildLog'[i].backup = i
    ]_vars

\* The digits a page's name starts with, and a digit string left-padded with
\* zeros to width 3.
PageDigits(name) == SubSeq(name, 1, DigitsEnd(name, 1) - 1)
PadLeft3(d) == Zeros(3 - Len(d)) \o d
RECURSIVE FirstNonZero(_, _)
FirstNonZero(d, i) == IF i <= Len(d) /\ d[i] = "0" THEN FirstNonZero(d, i + 1) ELSE i
StripZeros(d) == SubSeq(d, FirstNonZero(d, 1), Len(d))

\* The claim as the specification words it: the canonical text of a digit
\* string d is d itself left-padded with zeros to width 3, whatever its
\* leading zeros, and the highest value is int(d).
C21_PaddedAsWritten ==
    \A i \in 1..Len(buildLog) :
        /\ buildLog[i].number = PadLeft3(PageDigits(renames[i][1]))
        /\ buildLog[i].highest = IntOf(PageDigits(renames[i][1]))

\* C21: for a non-empty digit string d the canonical text is d without its
\* leading zeros, left-padded with zeros to width 3, and the highest value
\* is int(d); it is d left-padded to width 3 when d has at most three digits
\* or does not start with a zero, and a value of 1000 or more keeps all its
\* digits.
C21_CanonicalPageNumber ==
    \A i \in 1..Len(buildLog) :
        \E d \in {PageDigits(renames[i][1])} :
            /\ buildLog[i].matched
            /\ buildLog[i].number = PadLeft3(StripZeros(d))
            /\ buildLog[i].highest = IntOf(d)
            /\ (Len(d) <= 3 \/ d[1] # "0") => buildLog[i].number = PadLeft3(d)
            /\ buildLog[i].highest >= 1000 =>
                  /\ Len(buildLog[i].number) > 3
                  /\ buildLog[i].number = StripZeros(d)

\* A reload under Series has parsed the page 0019.jpg: its number is 019.
C21_Witness ==
    /\ builds > 1
    /\ dirType = TYPE_SERIES
    /\ Len(renames) = 1
    /\ renames[1][1] = PageName(<<"0", "0", "1", "9">>)
    /\ buildLog[1].number = <<"0", "1", "9">>
    /\ buildLog[1].highest = 19

====
